---- MODULE Spec2Model ----
(***************************************************************************)
(* A model of gclone (src/main.go, the last revision, lines 283-892): the  *)
(* clone driver main, the packfile decoder parsePackfile, the ref-delta    *)
(* resolver processRefDeltaObjs and the loose-object store                 *)
(* writeObject/readObject.                                                 *)
(*                                                                         *)
(* Bytes are the integers 0..255 and a buffer is a sequence of bytes.      *)
(* A 64-bit integer is the set of the positions of its one bits, so that   *)
(* shifts, ors and the loss of the bits above position 63 are what they    *)
(* are in the code.                                                        *)
(***************************************************************************)
EXTENDS Integers, Sequences, FiniteSets, TLC

VARIABLES pc, exitCode, err, store, pack, objsCount, i, off, deltas, k, objSize,
          advert, mainHash, defaultBranch

vars == <<pc, exitCode, err, store, pack, objsCount, i, off, deltas, k, objSize,
          advert, mainHash, defaultBranch>>

(***************************************************************************)
(* Bytes, bits and buffers                                                 *)
(***************************************************************************)
Pow2(n) == 2 ^ n

\* bit j (0 = lowest) of the byte b
BitSet(b, j) == (b \div Pow2(j)) % 2 = 1

\* int64(b) << shift, cut to 64 bits: the positions of the one bits
ShiftedBits(b, shift) == {shift + j : j \in {j \in 0..7 : BitSet(b, j)}} \cap (0..63)

\* the int64 of a length or a count n >= 0 (n is far below 2^31 in the model)
BitsOf(n) == {j \in 0..30 : (n \div Pow2(j)) % 2 = 1}

RECURSIVE SumRange(_, _, _)
SumRange(s, lo, hi) ==
    IF lo > hi THEN 0
    ELSE IF lo = hi THEN s[lo]
    ELSE LET mid == (lo + hi) \div 2 IN SumRange(s, lo, mid) + SumRange(s, mid + 1, hi)

SumSeq(s) == SumRange(s, 1, Len(s))

\* s[from:to] of the code, 0-based and half-open, for 0 <= from <= to <= Len(s)
Slice(s, from, to) == SubSeq(s, from + 1, to)

\* the 0-based index of the last c in s, or -1
LastIndexByte(s, c) ==
    IF \E j \in 1..Len(s) : s[j] = c
    THEN (CHOOSE j \in 1..Len(s) : s[j] = c /\ \A h \in (j + 1)..Len(s) : s[h] # c) - 1
    ELSE -1

\* bytes.IndexByte: the 0-based index of the first c in s, or -1
IndexByte(s, c) ==
    IF \E j \in 1..Len(s) : s[j] = c
    THEN (CHOOSE j \in 1..Len(s) : s[j] = c /\ \A h \in 1..(j - 1) : s[h] # c) - 1
    ELSE -1

(***************************************************************************)
(* crypto/sha1.  A digest is HashLen bytes.  SHA-1 itself is not computed: *)
(* the digest is built from two polynomial residues and the length of the  *)
(* input, which tells apart all the buffers the model hashes (SHA-1's      *)
(* collision resistance) and changes whenever one byte of the input does.  *)
(***************************************************************************)
HashLen == 20

\* the residue of the polynomial with coefficients s[lo..hi] (each plus one)
\* at mul, with mul^(hi-lo+1), both modulo prime; the range is halved so that
\* the evaluation stays shallow
RECURSIVE PolyRange(_, _, _, _, _)
PolyRange(s, lo, hi, mul, prime) ==
    IF lo > hi THEN [val |-> 0, pow |-> 1]
    ELSE IF lo = hi THEN [val |-> (s[lo] + 1) % prime, pow |-> mul % prime]
    ELSE LET mid == (lo + hi) \div 2
             left == PolyRange(s, lo, mid, mul, prime)
             right == PolyRange(s, mid + 1, hi, mul, prime)
         IN  [val |-> (left.val * right.pow + right.val) % prime,
              pow |-> (left.pow * right.pow) % prime]

PolyHash(s, mul, prime) == PolyRange(Append(s, Len(s) % 256), 1, Len(s) + 1, mul, prime).val

SHA1(s) ==
    LET h1 == PolyHash(s, 257, 46337)
        h2 == PolyHash(s, 263, 46327)
    IN  [j \in 1..HashLen |->
            CASE j = 1 -> h1 \div 256
              [] j = 2 -> h1 % 256
              [] j = 3 -> h2 \div 256
              [] j = 4 -> h2 % 256
              [] j = 5 -> Len(s) % 256
              [] OTHER -> 0]

\* hex.EncodeToString: two hex digits (0..15) a byte, the high one first
EncodeToString(b) ==
    [j \in 1..(2 * Len(b)) |->
        IF j % 2 = 1 THEN b[(j + 1) \div 2] \div 16 ELSE b[j \div 2] % 16]

\* filepath.Join(".git/objects", hash[:2], hash[2:]): <<directory, file>>
ObjPath(hash) == <<Slice(hash, 0, 2), Slice(hash, 2, Len(hash))>>

(***************************************************************************)
(* compress/zlib.  A stream is the header byte 0x78, one stored block (its *)
(* length, then the bytes) and a checksum of the bytes; like a zlib stream *)
(* it states its own end, it is not the bytes it carries, and a reader     *)
(* rejects a bad header, a short stream and a bad checksum.                *)
(***************************************************************************)
ZlibHeader == 120

Adler(data) == (1 + SumSeq(data)) % 251

compressBytes(data) == <<ZlibHeader, Len(data)>> \o data \o <<Adler(data)>>

\* zlib.NewReader + read to the end of the stream: the bytes, and how many
\* bytes of the input the reader took
Inflate(s) ==
    IF Len(s) < 2 \/ s[1] # ZlibHeader
    THEN [ok |-> FALSE, out |-> <<>>, consumed |-> 0]
    ELSE LET n == s[2] IN
         IF Len(s) < n + 3 \/ s[n + 3] # Adler(SubSeq(s, 3, n + 2))
         THEN [ok |-> FALSE, out |-> <<>>, consumed |-> 0]
         ELSE [ok |-> TRUE, out |-> SubSeq(s, 3, n + 2), consumed |-> n + 3]

decompressBytes(data) == Inflate(data)

(***************************************************************************)
(* The object store (.git/objects): a function from the path of a file to  *)
(* the bytes of the file.                                                  *)
(***************************************************************************)
OBJ_COMMIT == 1
OBJ_TREE == 2
OBJ_BLOB == 3
OBJ_TAG == 4
OBJ_OFS_DELTA == 6
OBJ_REF_DELTA == 7

Commit == <<99, 111, 109, 109, 105, 116>>
Tree == <<116, 114, 101, 101>>
Blob == <<98, 108, 111, 98>>
RefDelta == <<114, 101, 102, 95, 100, 101, 108, 116, 97>>

\* the map objTypeNames: the types the decoder knows, and their names
objTypeNames ==
    [t \in {OBJ_COMMIT, OBJ_TREE, OBJ_BLOB, OBJ_REF_DELTA} |->
        CASE t = OBJ_COMMIT -> Commit
          [] t = OBJ_TREE -> Tree
          [] t = OBJ_BLOB -> Blob
          [] OTHER -> RefDelta]

\* fmt.Sprintf("%d", n) for n >= 0: the decimal digits of n
RECURSIVE Itoa(_)
Itoa(n) == IF n < 10 THEN <<48 + n>> ELSE Itoa(n \div 10) \o <<48 + (n % 10)>>

IsDigit(c) == c >= 48 /\ c <= 57

RECURSIVE DigitsValue(_, _)
DigitsValue(s, acc) ==
    IF s = <<>> THEN acc ELSE DigitsValue(Tail(s), acc * 10 + (Head(s) - 48))

\* strconv.Atoi: an optional sign and then decimal digits, nothing else.
\* More than 9 digits are out of the model's integers and are refused here.
Atoi(s) ==
    LET signed == s # <<>> /\ Head(s) \in {43, 45}
        digits == IF signed THEN Tail(s) ELSE s
    IN  IF digits = <<>> \/ Len(digits) > 9 \/ \E j \in 1..Len(digits) : ~IsDigit(digits[j])
        THEN [ok |-> FALSE, val |-> 0]
        ELSE [ok |-> TRUE,
              val |-> IF signed /\ Head(s) = 45
                      THEN 0 - DigitsValue(digits, 0) ELSE DigitsValue(digits, 0)]

\* the header without the type: "<size>\0<content>"
ObjContentNoType(content, objType) == <<32>> \o Itoa(Len(content)) \o <<0>> \o content

\* "<type> <size>\0<content>" (writeObject, lines 450-454)
ObjContent(content, objType) ==
    objType \o <<32>> \o Itoa(Len(content)) \o <<0>> \o content

\* the hex object id writeObject computes (lines 456-458)
ObjHash(content, objType) == EncodeToString(SHA1(ObjContent(content, objType)))

\* a write that adds to the file when there is one already
AppendFile(st, path, data) ==
    [p \in (DOMAIN st) \cup {path} |->
        IF p # path THEN st[p] ELSE IF path \in DOMAIN st THEN st[path] \o data ELSE data]

\* os.WriteFile: the file is created or replaced
WriteFile(st, path, data) ==
    [p \in (DOMAIN st) \cup {path} |-> IF p = path THEN data ELSE st[p]]

\* writeObject when the file system accepts the write: the store after it
writeObject(st, content, objType) ==
    WriteFile(st, ObjPath(ObjHash(content, objType)),
              compressBytes(ObjContent(content, objType)))

ReadFailed == [ok |-> FALSE, content |-> <<>>, objType |-> <<>>]

\* readObject once the file is read (lines 488-521): [ok, content, objType]
parseObjectFile(file) ==
    LET z == decompressBytes(file) IN
    IF ~z.ok THEN ReadFailed
    ELSE LET objContent == z.out
             nullIdx == IndexByte(objContent, 0)
         IN  IF nullIdx = -1 THEN ReadFailed
             ELSE LET header == Slice(objContent, 0, nullIdx)
                      content == Slice(objContent, nullIdx + 1, Len(objContent))
                      spaceIdx == IndexByte(header, 32)
                  IN  IF spaceIdx = -1 THEN ReadFailed
                      ELSE LET size == Atoi(Slice(header, spaceIdx + 1, Len(header)))
                           IN  IF ~size.ok \/ size.val # Len(content) THEN ReadFailed
                               ELSE [ok |-> TRUE, content |-> content,
                                     objType |-> Slice(header, 0, spaceIdx)]

\* readObject (lines 478-522): os.ReadFile fails when there is no such file
readObject(st, hash) ==
    IF ObjPath(hash) \notin DOMAIN st THEN ReadFailed
    ELSE parseObjectFile(st[ObjPath(hash)])

(***************************************************************************)
(* The packfile decoder                                                    *)
(***************************************************************************)
Magic == <<80, 65, 67, 75>>
HeaderLen == 12

\* the value of an integer kept as the set of its one bits, all below 31
RECURSIVE Value(_)
Value(bits) ==
    IF bits = {} THEN 0
    ELSE LET b == CHOOSE x \in bits : TRUE IN Pow2(b) + Value(bits \ {b})

\* n < v, for an integer v kept as the set of its one bits and 0 <= n < 2^24
Below(n, bits) == (\E b \in bits : b >= 24) \/ n < Value(bits)

\* verifyChecksum without the comparison of line 545
verifyLengthOnly(p) == Len(p) >= HashLen

\* verifyChecksum (lines 534-546)
verifyChecksum(p) ==
    IF Len(p) < HashLen THEN FALSE
    ELSE Slice(p, Len(p) - HashLen, Len(p)) = SHA1(Slice(p, 0, Len(p) - HashLen))

\* getObjectsCount (lines 524-532): the uint32 at bytes 8..11, big-endian
getObjectsCount(p) ==
    IF Len(p) < HeaderLen THEN [ok |-> FALSE, msg |-> "packfile too short", count |-> {}]
    ELSE IF Slice(p, 0, 4) # Magic
    THEN [ok |-> FALSE, msg |-> "missing PACK", count |-> {}]
    ELSE [ok |-> TRUE, msg |-> "",
          count |-> ShiftedBits(p[9], 24) \cup ShiftedBits(p[10], 16)
                        \cup ShiftedBits(p[11], 8) \cup ShiftedBits(p[12], 0)]

\* the loop of lines 585-607: the bytes of the size after the first one
RECURSIVE SizeTail(_, _, _, _)
SizeTail(body, o, size, shift) ==
    IF o >= Len(body)
    THEN [ok |-> FALSE, msg |-> "unexpected end of packfile", size |-> {}, off |-> o]
    ELSE LET byt == body[o + 1] IN
         IF shift > 60
         THEN [ok |-> FALSE, msg |-> "object size encoding too large", size |-> {},
               off |-> o + 1]
         ELSE LET sz == size \cup ShiftedBits(byt % 128, shift) IN
              IF byt < 128 THEN [ok |-> TRUE, msg |-> "", size |-> sz, off |-> o + 1]
              ELSE SizeTail(body, o + 1, sz, shift + 7)

\* the low 5 bits of the first byte, one bit of the type among them
SizeLowFiveBits(byt) == BitsOf(byt % 32)

\* int64(byt & 0xF) (line 581)
SizeLow(byt) == BitsOf(byt % 16)

\* the size of a record whose first byte is at offset o of body (lines
\* 581-608): [ok, msg, size, off], off being the offset after the size
SizeHeader(body, o) ==
    LET byt == body[o + 1] IN
    IF byt >= 128 THEN SizeTail(body, o + 1, SizeLow(byt), 4)
    ELSE [ok |-> TRUE, msg |-> "", size |-> SizeLow(byt), off |-> o + 1]

\* a + b of two int64, cut to 64 bits: the bits from position j on
RECURSIVE AddBits(_, _, _, _)
AddBits(a, b, j, carry) ==
    IF j > 63 THEN {}
    ELSE LET n == (IF j \in a THEN 1 ELSE 0) + (IF j \in b THEN 1 ELSE 0) + carry
         IN  (IF n % 2 = 1 THEN {j} ELSE {}) \cup AddBits(a, b, j + 1, n \div 2)

\* the loop of the earlier revision (lines 159-181): objSize += ...
RECURSIVE SizeTailAdd(_, _, _, _)
SizeTailAdd(body, o, size, shift) ==
    IF o >= Len(body)
    THEN [ok |-> FALSE, msg |-> "unexpected end of packfile", size |-> {}, off |-> o]
    ELSE LET byt == body[o + 1] IN
         IF shift > 60
         THEN [ok |-> FALSE, msg |-> "object size encoding too large", size |-> {},
               off |-> o + 1]
         ELSE LET sz == AddBits(size, ShiftedBits(byt % 128, shift), 0, 0) IN
              IF byt < 128 THEN [ok |-> TRUE, msg |-> "", size |-> sz, off |-> o + 1]
              ELSE SizeTailAdd(body, o + 1, sz, shift + 7)

\* the size decoder of the earlier revision (lines 155-182)
SizeHeaderAdd(body, o) ==
    LET byt == body[o + 1] IN
    IF byt >= 128 THEN SizeTailAdd(body, o + 1, SizeLow(byt), 4)
    ELSE [ok |-> TRUE, msg |-> "", size |-> SizeLow(byt), off |-> o + 1]

RecordFailed(msg) ==
    [ok |-> FALSE, msg |-> msg, objType |-> 0, hash |-> <<>>, raw |-> <<>>, off |-> 0]

\* one record of the packfile, read at offset o of body (lines 565-648)
parseRecord(body, o) ==
    IF o >= Len(body) THEN RecordFailed("unexpected end of packfile")
    ELSE
    LET byt == body[o + 1]
        objType == (byt \div 16) % 8
    IN  IF objType \notin DOMAIN objTypeNames THEN RecordFailed("Bad object type")
        ELSE
        LET sz == SizeHeader(body, o)
        IN  IF ~sz.ok THEN RecordFailed(sz.msg)
            ELSE IF objType = OBJ_REF_DELTA /\ sz.off + HashLen > Len(body)
            THEN RecordFailed("unexpected end of packfile while reading ref delta hash")
            ELSE
            LET refDeltaHash == IF objType = OBJ_REF_DELTA
                                THEN Slice(body, sz.off, sz.off + HashLen) ELSE <<>>
                o2 == IF objType = OBJ_REF_DELTA THEN sz.off + HashLen ELSE sz.off
            IN  IF o2 >= Len(body) THEN RecordFailed("unexpected end of packfile")
                ELSE LET z == Inflate(Slice(body, o2, Len(body))) IN
                     IF ~z.ok THEN RecordFailed("zlib has failed")
                     ELSE IF BitsOf(Len(z.out)) # sz.size
                     THEN RecordFailed("object size mismatch")
                     ELSE [ok |-> TRUE, msg |-> "", objType |-> objType,
                           hash |-> refDeltaHash, raw |-> z.out, off |-> o2 + z.consumed]

(***************************************************************************)
(* The delta resolver                                                      *)
(***************************************************************************)
INST_TYPE_ADD == 0
INST_TYPE_COPY == 1

\* io.ReadAll hands out a buffer of capacity 512 for every payload shorter
\* than that, as all payloads of the model are (line 635)
ReadAllCap == 512

\* parseVarInt (lines 665-692): [ok, value, read]
RECURSIVE VarIntLoop(_, _, _, _)
VarIntLoop(data, o, value, shift) ==
    IF o >= Len(data) THEN [ok |-> FALSE, value |-> {}, read |-> 0]
    ELSE LET byt == data[o + 1] IN
         IF shift > 60 THEN [ok |-> FALSE, value |-> {}, read |-> 0]
         ELSE LET v == value \cup ShiftedBits(byt % 128, shift) IN
              IF byt < 128 THEN [ok |-> TRUE, value |-> v, read |-> o + 1]
              ELSE VarIntLoop(data, o + 1, v, shift + 7)

parseVarInt(data) == VarIntLoop(data, 0, {}, 0)

\* the loops of lines 709-714 and 717-722: for j = from..(n - 1), the byte at
\* o is or-ed in at 8*j when bit j of sel is set.  Reading data[o] with
\* o >= len(data) panics.
RECURSIVE SelectedBytes(_, _, _, _, _, _)
SelectedBytes(data, o, sel, j, n, acc) ==
    IF j >= n THEN [panic |-> FALSE, bits |-> acc, off |-> o]
    ELSE IF ~BitSet(sel, j) THEN SelectedBytes(data, o, sel, j + 1, n, acc)
    ELSE IF o >= Len(data) THEN [panic |-> TRUE, bits |-> {}, off |-> o]
    ELSE SelectedBytes(data, o + 1, sel, j + 1, n, acc \cup ShiftedBits(data[o + 1], 8 * j))

\* data[from:to] of a slice whose capacity reaches beyond its length: the
\* bytes past the length are the untouched zeros of the buffer
SliceInCap(data, from, to) ==
    [j \in 1..(to - from) |-> IF from + j <= Len(data) THEN data[from + j] ELSE 0]

\* parseInstructions (lines 694-740), data being a slice of capacity cap:
\* [panic, insts, off]
RECURSIVE parseInstructions(_, _, _, _)
parseInstructions(data, cap, o, insts) ==
    IF o >= Len(data) THEN [panic |-> FALSE, insts |-> insts, off |-> o]
    ELSE
    LET byt == data[o + 1] IN
    IF byt >= 128
    THEN LET ofs == SelectedBytes(data, o + 1, byt % 16, 0, 4, {}) IN
         IF ofs.panic THEN [panic |-> TRUE, insts |-> insts, off |-> o]
         ELSE LET sz == SelectedBytes(data, ofs.off, (byt \div 16) % 8, 0, 3, {}) IN
              IF sz.panic THEN [panic |-> TRUE, insts |-> insts, off |-> o]
              ELSE parseInstructions(data, cap, sz.off,
                       Append(insts,
                              [instType |-> INST_TYPE_COPY,
                               size |-> IF sz.bits = {} THEN 65536 ELSE Value(sz.bits),
                               offset |-> ofs.bits,
                               data |-> <<>>]))
    ELSE LET size == byt % 128 IN
         IF o + 1 + size > cap THEN [panic |-> TRUE, insts |-> insts, off |-> o]
         ELSE parseInstructions(data, cap, o + 1 + size,
                  Append(insts,
                         [instType |-> INST_TYPE_ADD,
                          size |-> size,
                          offset |-> {},
                          data |-> SliceInCap(data, o + 1, o + 1 + size)]))

\* the loop of lines 771-789: the target built from the source, or an error
RECURSIVE applyInstructions(_, _, _)
applyInstructions(insts, srcContent, trgContent) ==
    IF insts = <<>> THEN [ok |-> TRUE, content |-> trgContent]
    ELSE LET inst == Head(insts) IN
         IF inst.instType = INST_TYPE_COPY
         THEN IF (\E b \in inst.offset : b >= 24)
                   \/ Value(inst.offset) + inst.size > Len(srcContent)
              THEN [ok |-> FALSE, content |-> <<>>]
              ELSE applyInstructions(Tail(insts), srcContent,
                       trgContent \o Slice(srcContent, Value(inst.offset),
                                           Value(inst.offset) + inst.size))
         ELSE IF inst.size # Len(inst.data)
              THEN [ok |-> FALSE, content |-> <<>>]
              ELSE applyInstructions(Tail(insts), srcContent, trgContent \o inst.data)

\* a length that does not exceed the declared size
SizeAtMost(n, bits) == BitsOf(n) = bits \/ Below(n, bits)

\* int64(len(content)) == size (the tests of lines 761 and 791)
SizeIs(n, bits) == BitsOf(n) = bits

DeltaFailed(st, msg) == [st |-> st, msg |-> msg, content |-> <<>>, objType |-> <<>>]

\* one delta of processRefDeltaObjs up to the write (lines 744-796), on the
\* store st: [st: "ok" | "err" | "panic", msg, content, objType]
resolveDelta(st, d) ==
    LET src == parseVarInt(d.data) IN
    IF ~src.ok THEN DeltaFailed("err", "failed to parse delta source size")
    ELSE
    LET trg == parseVarInt(Slice(d.data, src.read, Len(d.data))) IN
    IF ~trg.ok THEN DeltaFailed("err", "failed to parse delta target size")
    ELSE
    LET o == src.read + trg.read
        base == readObject(st, d.hash)
    IN  IF ~base.ok THEN DeltaFailed("err", "failed to read obj")
        ELSE IF ~SizeIs(Len(base.content), src.value)
        THEN DeltaFailed("err", "delta source size doesn't match")
        ELSE
        LET parsed == parseInstructions(Slice(d.data, o, Len(d.data)),
                                        ReadAllCap - o, 0, <<>>)
        IN  IF parsed.panic THEN DeltaFailed("panic", "index out of range")
            ELSE
            LET built == applyInstructions(parsed.insts, base.content, <<>>) IN
            IF ~built.ok THEN DeltaFailed("err", "bad instruction")
            ELSE IF ~SizeIs(Len(built.content), trg.value)
            THEN DeltaFailed("err", "delta target size doesn't match")
            ELSE [st |-> "ok", msg |-> "", content |-> built.content,
                  objType |-> base.objType]

(***************************************************************************)
(* The packfiles a server may send: lists of at most MaxRecords records    *)
(* drawn from RecordMenu, written in the format parsePackfile reads, and   *)
(* some damaged ones.                                                      *)
(***************************************************************************)
MaxRecords == 3

A == <<97>>
AB == <<97, 98>>
Long == [j \in 1..17 |-> 97]

EmptyStore == [p \in {} |-> <<>>]

\* the 20-byte object id of an object
Oid(content, objType) == SHA1(ObjContent(content, objType))

\* [type, base, raw]: a record of type 0..6 carrying raw, or a ref-delta
\* (type 7) on the object named base whose payload is raw
FullRecord(t, raw) == [type |-> t, base |-> <<>>, raw |-> raw]
DeltaRecord(base, raw) == [type |-> OBJ_REF_DELTA, base |-> base, raw |-> raw]

\* blob "a" -> blob "ab": copy(0, 1), insert "b"
DeltaAtoAB == DeltaRecord(Oid(A, Blob), <<1, 2, 144, 1, 1, 98>>)
\* blob "ab" -> blob "abc": copy(0, 2), insert "c"
DeltaABtoABC == DeltaRecord(Oid(AB, Blob), <<2, 3, 144, 2, 1, 99>>)
\* blob "a" -> blob "a": copy(0, 1); its base is its own target
DeltaAtoA == DeltaRecord(Oid(A, Blob), <<1, 1, 144, 1>>)
\* blob "a" -> blob "ca", with the opcode 0 first: 0, insert "c", copy(0, 1)
DeltaOpZero == DeltaRecord(Oid(A, Blob), <<1, 2, 0, 1, 99, 144, 1>>)
\* on blob "a": a copy whose offset byte and size byte are missing
DeltaCutCopy == DeltaRecord(Oid(A, Blob), <<1, 1, 145>>)

RecordMenu ==
    {FullRecord(t, A) : t \in 0..6}
        \cup {FullRecord(OBJ_BLOB, Long)}
        \cup {DeltaAtoAB, DeltaABtoABC, DeltaAtoA, DeltaOpZero, DeltaCutCopy}

RecordLists(n) == UNION {[1..m -> RecordMenu] : m \in 0..n}

\* the size header of a record: type and low 4 bits, then 7 bits a byte
RECURSIVE EncodeSizeTail(_)
EncodeSizeTail(n) ==
    IF n < 128 THEN <<n>> ELSE <<128 + (n % 128)>> \o EncodeSizeTail(n \div 128)

EncodeSize(t, n) ==
    IF n < 16 THEN <<t * 16 + n>>
    ELSE <<128 + t * 16 + (n % 16)>> \o EncodeSizeTail(n \div 16)

EncodeRecord(r) == EncodeSize(r.type, Len(r.raw)) \o r.base \o compressBytes(r.raw)

RECURSIVE EncodeRecords(_)
EncodeRecords(rs) ==
    IF rs = <<>> THEN <<>> ELSE EncodeRecord(Head(rs)) \o EncodeRecords(Tail(rs))

BigEndian32(n) == <<0, 0, n \div 256, n % 256>>

Sealed(bytes) == bytes \o SHA1(bytes)

EncodePack(version, count, rs) ==
    Sealed(Magic \o BigEndian32(version) \o BigEndian32(count) \o EncodeRecords(rs))

\* p with its byte at 0-based index j changed
Flip(p, j) == [p EXCEPT ![j + 1] = (@ + 1) % 256]

Packs ==
    {EncodePack(2, Len(rs), rs) : rs \in RecordLists(MaxRecords)}
        \* a version other than 2
        \cup {EncodePack(3, Len(rs), rs) : rs \in RecordLists(1)}
        \* fewer records announced than sent
        \cup {EncodePack(2, Len(rs) - 1, rs) : rs \in RecordLists(2) \ {<<>>}}
        \* a trailer that is not the hash of the bytes before it
        \cup {Flip(EncodePack(2, Len(rs), rs), HeaderLen + Len(EncodeRecords(rs)))
                : rs \in RecordLists(1)}
        \* too short to hold a header and a trailer
        \cup {Sealed(Magic), Magic}
        \* 28 and 31 bytes: the trailer begins within the header
        \cup {Sealed(Magic \o BigEndian32(2)), Sealed(Magic \o BigEndian32(2) \o <<0, 0, 0>>)}

InitStores == {EmptyStore, writeObject(EmptyStore, AB, Blob)}

(***************************************************************************)
(* main (lines 850-892) and the loops it runs                              *)
(***************************************************************************)
Running == -1

Init ==
    /\ pc = "main"
    /\ exitCode = Running
    /\ err = ""
    /\ store \in InitStores
    /\ pack = <<>>
    /\ objsCount = {}
    /\ i = 0
    /\ off = 0
    /\ deltas = <<>>
    /\ k = 0
    /\ objSize = {}
    /\ advert = <<>>
    /\ mainHash = <<>>
    /\ defaultBranch = <<>>

\* os.Exit(code) after the diagnostic msg; a panic ends the process with 2
Exit(code, msg) ==
    /\ pc' = "exit"
    /\ exitCode' = code
    /\ err' = msg

Goto(next) ==
    /\ pc' = next
    /\ UNCHANGED <<exitCode, err>>

\* lines 851-857
CheckArgs ==
    /\ pc = "main"
    /\ \E argsOk \in BOOLEAN : IF argsOk THEN Goto("changeDir") ELSE Exit(1, "usage")
    /\ UNCHANGED <<store, pack, objsCount, i, off, deltas, k, objSize, advert, mainHash, defaultBranch>>

\* lines 859-862
ChangeDir ==
    /\ pc = "changeDir"
    /\ \E ok \in BOOLEAN : IF ok THEN Goto("getMainHash") ELSE Exit(1, "changeDir")
    /\ UNCHANGED <<store, pack, objsCount, i, off, deltas, k, objSize, advert, mainHash, defaultBranch>>

\* lines 864-868
GetMainHash ==
    /\ pc = "getMainHash"
    /\ \E ok \in BOOLEAN : IF ok THEN Goto("getPackfile") ELSE Exit(1, "getMainHash")
    /\ UNCHANGED <<store, pack, objsCount, i, off, deltas, k, objSize, advert, mainHash, defaultBranch>>

\* lines 870-874: the bytes after the NAK frame are any packfile
GetPackfile ==
    /\ pc = "getPackfile"
    /\ \/ /\ \E p \in Packs : pack' = p
          /\ Goto("initRepo")
       \/ /\ Exit(1, "getPackfile")
          /\ UNCHANGED pack
    /\ UNCHANGED <<store, objsCount, i, off, deltas, k, objSize, advert, mainHash, defaultBranch>>

\* lines 876-879: the directories and the two ref files, no object
InitRepo ==
    /\ pc = "initRepo"
    /\ \E ok \in BOOLEAN : IF ok THEN Goto("parsePackfile") ELSE Exit(1, "failed to init repo")
    /\ UNCHANGED <<store, pack, objsCount, i, off, deltas, k, objSize, advert, mainHash, defaultBranch>>

\* the working slice pack[12 : len(pack)-20] of line 559
Body(p) == Slice(p, HeaderLen, Len(p) - HashLen)

\* parsePackfile up to its loop (lines 549-563)
ParsePackfile ==
    /\ pc = "parsePackfile"
    /\ LET cnt == getObjectsCount(pack) IN
       IF ~verifyChecksum(pack)
       THEN Exit(1, "Checksum verification failed") /\ UNCHANGED objsCount
       ELSE IF ~cnt.ok
       THEN Exit(1, cnt.msg) /\ UNCHANGED objsCount
       ELSE IF HeaderLen > Len(pack) - HashLen
       THEN Exit(2, "slice bounds out of range") /\ UNCHANGED objsCount
       ELSE Goto("records") /\ objsCount' = cnt.count
    /\ UNCHANGED <<store, pack, i, off, deltas, k, objSize, advert, mainHash, defaultBranch>>

\* a ref-delta is kept and, when its base is in the store already, resolved
\* and written at once
KeepDeltaResolveAtOnce(r) ==
    LET d == [hash |-> EncodeToString(r.hash), data |-> r.raw]
        res == resolveDelta(store, d)
    IN  /\ deltas' = Append(deltas, d)
        /\ store' = IF res.st = "ok" THEN writeObject(store, res.content, res.objType)
                     ELSE store

\* lines 650-654: a ref-delta is kept for processRefDeltaObjs, nothing is
\* written for it
KeepDelta(r) ==
    /\ deltas' = Append(deltas, [hash |-> EncodeToString(r.hash), data |-> r.raw])
    /\ UNCHANGED store

\* one turn of the loop of parsePackfile (lines 564-661)
ParseRecord ==
    /\ pc = "records"
    /\ Below(i, objsCount)
    /\ LET r == parseRecord(Body(pack), off) IN
       IF ~r.ok
       THEN Exit(1, r.msg) /\ UNCHANGED <<store, i, off, deltas>>
       ELSE IF r.objType = OBJ_REF_DELTA
       THEN /\ KeepDelta(r)
            /\ i' = i + 1
            /\ off' = r.off
            /\ Goto("records")
       ELSE \E written \in BOOLEAN :
                IF written
                THEN /\ store' = writeObject(store, r.raw, objTypeNames[r.objType])
                     /\ i' = i + 1
                     /\ off' = r.off
                     /\ Goto("records")
                     /\ UNCHANGED deltas
                ELSE Exit(1, "failed to write object") /\ UNCHANGED <<store, i, off, deltas>>
    /\ UNCHANGED <<pack, objsCount, k, objSize, advert, mainHash, defaultBranch>>

\* the loop of parsePackfile ends: the deltas are returned (line 662) and
\* main calls processRefDeltaObjs (line 887)
ParseDone ==
    /\ pc = "records"
    /\ ~Below(i, objsCount)
    /\ Goto("processRefDeltaObjs")
    /\ k' = 0
    /\ UNCHANGED <<store, pack, objsCount, i, off, deltas, objSize, advert, mainHash, defaultBranch>>

\* one turn of the loop of processRefDeltaObjs (lines 743-803)
ProcessRefDelta ==
    /\ pc = "processRefDeltaObjs"
    /\ k < Len(deltas)
    /\ LET r == resolveDelta(store, deltas[k + 1]) IN
       IF r.st = "err" THEN Exit(1, r.msg) /\ UNCHANGED <<store, k>>
       ELSE IF r.st = "panic" THEN Exit(2, r.msg) /\ UNCHANGED <<store, k>>
       ELSE \E written \in BOOLEAN :
                IF written
                THEN /\ store' = writeObject(store, r.content, r.objType)
                     /\ k' = k + 1
                     /\ Goto("processRefDeltaObjs")
                ELSE Exit(1, "failed to write to file") /\ UNCHANGED <<store, k>>
    /\ UNCHANGED <<pack, objsCount, i, off, deltas, objSize, advert, mainHash, defaultBranch>>

\* processRefDeltaObjs returns nil (line 804) and main ends
ProcessDone ==
    /\ pc = "processRefDeltaObjs"
    /\ k >= Len(deltas)
    /\ Exit(0, "")
    /\ UNCHANGED <<store, pack, objsCount, i, off, deltas, k, objSize, advert, mainHash, defaultBranch>>

Next ==
    \/ CheckArgs
    \/ ChangeDir
    \/ GetMainHash
    \/ GetPackfile
    \/ InitRepo
    \/ ParsePackfile
    \/ ParseRecord
    \/ ParseDone
    \/ ProcessRefDelta
    \/ ProcessDone

Spec == Init /\ [][Next]_vars

\* main run in a directory that holds no object yet
InitFresh == Init /\ store = EmptyStore

SpecFresh == InitFresh /\ [][Next]_vars

(***************************************************************************)
(* The store alone: any objects written one after the other with          *)
(* writeObject, at most MaxWrites of them, their payloads of at most       *)
(* MaxPayloadLen bytes among which the two bytes that frame an object.     *)
(***************************************************************************)
MaxWrites == 2
MaxPayloadLen == 2

PayloadBytes == {0, 32}
Payloads == UNION {[1..n -> PayloadBytes] : n \in 0..MaxPayloadLen}
Kinds == {Tree, Blob}

InitStore ==
    /\ pc = "store"
    /\ exitCode = Running
    /\ err = ""
    /\ store = EmptyStore
    /\ pack = <<>>
    /\ objsCount = {}
    /\ i = 0
    /\ off = 0
    /\ deltas = <<>>
    /\ k = 0
    /\ objSize = {}
    /\ advert = <<>>
    /\ mainHash = <<>>
    /\ defaultBranch = <<>>

\* a call of writeObject that succeeds (lines 446-476)
WriteObject ==
    /\ pc = "store"
    /\ \E payload \in Payloads, kind \in Kinds :
           /\ \/ ObjPath(ObjHash(payload, kind)) \in DOMAIN store
              \/ Cardinality(DOMAIN store) < MaxWrites
           /\ store' = writeObject(store, payload, kind)
    /\ UNCHANGED <<pc, exitCode, err, pack, objsCount, i, off, deltas, k, objSize,
                   advert, mainHash, defaultBranch>>

SpecStore == InitStore /\ [][WriteObject]_vars

(***************************************************************************)
(* The resolver alone: processRefDeltaObjs on any list of at most          *)
(* MaxDeltas deltas of DeltaMenu, as parsePackfile may return it, on a     *)
(* store that holds the full objects written before.                       *)
(***************************************************************************)
MaxDeltas == 2

\* the Delta parsePackfile keeps for a ref-delta record (lines 650-654)
DeltaOf(r) == [hash |-> EncodeToString(r.base), data |-> r.raw]

\* on blob "ab", declared as 1 byte long: copy(0, 1)
DeltaWrongSource == DeltaRecord(Oid(AB, Blob), <<1, 1, 144, 1>>)
\* on blob "a", the target declared as 2 bytes long: copy(0, 1)
DeltaWrongTarget == DeltaRecord(Oid(A, Blob), <<1, 2, 144, 1>>)
\* on blob "a": copy(0, 1), then an insert of 2 bytes of which 1 is there
DeltaCutInsert == DeltaRecord(Oid(A, Blob), <<1, 3, 144, 1, 2, 98>>)
\* on blob "a": a copy whose offset byte is there and whose size byte is not
DeltaCutCopySize == DeltaRecord(Oid(A, Blob), <<1, 1, 145, 0>>)
\* on blob "a": copy(0, 2), beyond the end of the base
DeltaCopyBeyond == DeltaRecord(Oid(A, Blob), <<1, 2, 144, 2>>)
\* blob "a" -> blob "a", the source size written in two bytes: copy(0, 1)
DeltaTwoByteSize == DeltaRecord(Oid(A, Blob), <<129, 0, 1, 144, 1>>)
\* a payload that ends within the source size, and one without a target size
DeltaNoSource == DeltaRecord(Oid(A, Blob), <<129>>)
DeltaNoTarget == DeltaRecord(Oid(A, Blob), <<1>>)

DeltaMenu ==
    {DeltaOf(r) : r \in {DeltaAtoAB, DeltaABtoABC, DeltaAtoA, DeltaOpZero, DeltaCutCopy,
                         DeltaWrongSource, DeltaWrongTarget, DeltaCutInsert,
                         DeltaCutCopySize, DeltaCopyBeyond, DeltaTwoByteSize,
                         DeltaNoSource, DeltaNoTarget}}

DeltaLists(n) == UNION {[1..m -> DeltaMenu] : m \in 0..n}

ResolveStores ==
    {EmptyStore, writeObject(EmptyStore, A, Blob),
     writeObject(writeObject(EmptyStore, A, Blob), AB, Blob)}

\* parsePackfile has returned its deltas (line 662)
InitResolve ==
    /\ pc = "processRefDeltaObjs"
    /\ exitCode = Running
    /\ err = ""
    /\ store \in ResolveStores
    /\ pack = <<>>
    /\ objsCount = {}
    /\ i = 0
    /\ off = 0
    /\ deltas \in DeltaLists(MaxDeltas)
    /\ k = 0
    /\ objSize = {}
    /\ advert = <<>>
    /\ mainHash = <<>>
    /\ defaultBranch = <<>>

SpecResolve == InitResolve /\ [][ProcessRefDelta \/ ProcessDone]_vars

(***************************************************************************)
(* The size decoder alone, in its two revisions: the size header of a      *)
(* record is a first byte and at most MaxTail bytes after it, each but the *)
(* last with its continuation bit set; the last may have it set too, and   *)
(* then the buffer ends within the size.                                   *)
(***************************************************************************)
MaxTail == 10

FirstBytes == {53, 159, 176}
MoreBytes == {128, 255}
LastBytes == {1, 16, 127}

SizeTails(n) ==
    UNION {{t \o <<b>> : t \in [1..(m - 1) -> MoreBytes], b \in LastBytes \cup MoreBytes}
              : m \in 1..n}

SizeHeaders ==
    {<<b>> : b \in FirstBytes}
        \cup {<<b>> \o t : b \in {b \in FirstBytes : b >= 128}, t \in SizeTails(MaxTail)}

\* the loop of parsePackfile is at a record (line 565)
InitSize ==
    /\ pc = "size"
    /\ exitCode = Running
    /\ err = ""
    /\ store = EmptyStore
    /\ pack \in SizeHeaders
    /\ objsCount = {}
    /\ i = 0
    /\ off = 0
    /\ deltas = <<>>
    /\ k = 0
    /\ objSize = {}
    /\ advert = <<>>
    /\ mainHash = <<>>
    /\ defaultBranch = <<>>

\* lines 572-608 of the later revision
DecodeSize ==
    /\ pc = "size"
    /\ LET r == SizeHeader(pack, off) IN
       IF r.ok
       THEN Goto("sized") /\ objSize' = r.size /\ off' = r.off
       ELSE Exit(1, r.msg) /\ UNCHANGED <<objSize, off>>
    /\ UNCHANGED <<store, pack, objsCount, i, deltas, k, advert, mainHash, defaultBranch>>

\* lines 147-182 of the earlier revision
DecodeSizeAdd ==
    /\ pc = "size"
    /\ LET r == SizeHeaderAdd(pack, off) IN
       IF r.ok
       THEN Goto("sizedAdd") /\ objSize' = r.size /\ off' = r.off
       ELSE Exit(1, r.msg) /\ UNCHANGED <<objSize, off>>
    /\ UNCHANGED <<store, pack, objsCount, i, deltas, k, advert, mainHash, defaultBranch>>

SpecSize == InitSize /\ [][DecodeSize \/ DecodeSizeAdd]_vars

(***************************************************************************)
(* Discovery: getMainHash on the body of the reference advertisement       *)
(* (lines 356-378).  A string is the sequence of its characters, each a    *)
(* string of one character; NUL stands for the character 0.                *)
(***************************************************************************)
NUL == "\\0"

\* strings.Split(s, sep) for a separator of one character
Split(s, sep) ==
    LET cuts == {0, Len(s) + 1} \cup {j \in 1..Len(s) : s[j] = sep}
        cut(n) == CHOOSE p \in cuts : Cardinality({q \in cuts : q < p}) = n
    IN  [n \in 1..(Cardinality(cuts) - 1) |-> SubSeq(s, cut(n - 1) + 1, cut(n) - 1)]

\* strings.Contains
Contains(s, sub) ==
    \E j \in 0..(Len(s) - Len(sub)) : SubSeq(s, j + 1, j + Len(sub)) = sub

\* strings.HasSuffix
HasSuffix(s, suffix) ==
    /\ Len(s) >= Len(suffix)
    /\ SubSeq(s, Len(s) - Len(suffix) + 1, Len(s)) = suffix

\* strings.HasPrefix
HasPrefix(s, prefix) ==
    /\ Len(s) >= Len(prefix)
    /\ SubSeq(s, 1, Len(prefix)) = prefix

IsSpace(c) == c \in {" ", "\t", "\n", "\r", "\f"}

\* strings.Fields: the maximal runs of characters that are not white space
Fields(s) ==
    LET starts == {j \in 1..Len(s) : ~IsSpace(s[j]) /\ (j = 1 \/ IsSpace(s[j - 1]))}
        start(n) == CHOOSE p \in starts : Cardinality({q \in starts : q < p}) = n - 1
        end(p) == CHOOSE e \in p..Len(s) :
                      /\ \A j \in p..e : ~IsSpace(s[j])
                      /\ e = Len(s) \/ IsSpace(s[e + 1])
    IN  [n \in 1..Cardinality(starts) |-> SubSeq(s, start(n), end(start(n)))]

HeadRefsHeads == <<"H", "E", "A", "D", ":", "r", "e", "f", "s", "/", "h", "e", "a", "d", "s">>
RefsHeads == <<"r", "e", "f", "s", "/", "h", "e", "a", "d", "s", "/">>

\* the loop of lines 361-368 over the words from the n-th on
RECURSIVE BranchOfWords(_, _, _)
BranchOfWords(words, n, branch) ==
    IF n > Len(words) THEN branch
    ELSE LET w == words[n]
             parts == Split(w, "/")
         IN  BranchOfWords(words, n + 1,
                 IF Contains(w, HeadRefsHeads) /\ Len(parts) >= 3 THEN parts[3] ELSE branch)

\* the loop of lines 358-377 over the lines from the n-th on: [ok, hash, branch]
RECURSIVE ScanLines(_, _, _)
ScanLines(lines, n, branch) ==
    IF n > Len(lines) THEN [ok |-> FALSE, hash |-> <<>>, branch |-> <<>>]
    ELSE LET line == lines[n] IN
         IF branch = <<>>
         THEN ScanLines(lines, n + 1, BranchOfWords(Split(line, " "), 1, branch))
         ELSE LET fields == Fields(line) IN
              IF /\ HasSuffix(line, RefsHeads \o branch)
                 /\ Len(fields) > 0
                 /\ Len(fields[1]) > 4
              THEN [ok |-> TRUE, hash |-> SubSeq(fields[1], 5, Len(fields[1])),
                    branch |-> branch]
              ELSE ScanLines(lines, n + 1, branch)

\* getMainHash once the body is read (lines 356-378)
getMainHash(body) == ScanLines(Split(body, "\n"), 1, <<>>)

(***************************************************************************)
(* The advertisements a server may send: the service line, the line of     *)
(* HEAD with the capabilities, among them the symbolic reference of HEAD,  *)
(* and at most MaxRefs reference lines.                                    *)
(***************************************************************************)
MaxRefs == 3

Branches == {<<"m">>, <<"f", "/", "x">>}

RefNames ==
    {RefsHeads \o b : b \in Branches}
        \cup {<<"r", "e", "f", "s", "/", "a", "/">> \o RefsHeads \o b : b \in Branches}
        \cup {RefsHeads \o <<"f">>, <<"r", "e", "f", "s", "/", "t", "a", "g", "s", "/", "v">>}

\* the object id of the n-th line, two characters for forty
LineOid(n) == <<"e", CASE n = 0 -> "0" [] n = 1 -> "1" [] n = 2 -> "2" [] n = 3 -> "3"
                       [] OTHER -> "4">>

PktLen == <<"0", "0", "3", "f">>

ServiceLine == <<"0", "0", "1", "e", "#", " ", "s", "e", "r", "v", "i", "c", "e", "=", "g", "i", "t", "-", "u", "p", "l", "o", "a", "d", "-", "p", "a", "c", "k">>

HeadLine(b) ==
    <<"0", "0", "0", "0">> \o PktLen \o LineOid(0) \o <<" ", "H", "E", "A", "D">> \o <<NUL>> \o <<"o", "f", "s", "-", "d", "e", "l", "t", "a", " ">>
        \o <<"s", "y", "m", "r", "e", "f", "=">> \o HeadRefsHeads \o <<"/">> \o b \o <<" ", "a", "g", "e", "n", "t", "=", "g", "i", "t">>

RefLine(n, name) == PktLen \o LineOid(n) \o <<" ">> \o name

RECURSIVE JoinLines(_)
JoinLines(ls) == IF ls = <<>> THEN <<>> ELSE Head(ls) \o <<"\n">> \o JoinLines(Tail(ls))

Advert(b, names) ==
    JoinLines(<<ServiceLine, HeadLine(b)>> \o [n \in 1..Len(names) |-> RefLine(n, names[n])])
        \o <<"0", "0", "0", "0">>

Adverts ==
    {Advert(b, names) : b \in Branches,
                        names \in UNION {[1..m -> RefNames] : m \in 0..MaxRefs}}

\* main is about to call getMainHash (line 864), the body being any of Adverts
InitDiscover ==
    /\ pc = "getMainHash"
    /\ exitCode = Running
    /\ err = ""
    /\ store = EmptyStore
    /\ pack = <<>>
    /\ objsCount = {}
    /\ i = 0
    /\ off = 0
    /\ deltas = <<>>
    /\ k = 0
    /\ objSize = {}
    /\ advert \in Adverts
    /\ mainHash = <<>>
    /\ defaultBranch = <<>>

\* lines 864-868, on the body read at line 350
Discover ==
    /\ pc = "getMainHash"
    /\ LET r == getMainHash(advert) IN
       IF r.ok
       THEN Goto("getPackfile") /\ mainHash' = r.hash /\ defaultBranch' = r.branch
       ELSE Exit(1, "Default branch hash not found") /\ UNCHANGED <<mainHash, defaultBranch>>
    /\ UNCHANGED <<store, pack, objsCount, i, off, deltas, k, objSize, advert>>

SpecDiscover == InitDiscover /\ [][Discover]_vars

(***************************************************************************)
(* What a packfile holds, read from its bytes alone                        *)
(***************************************************************************)
\* the trailer of p is the hash of the bytes before it
TrailerMatches(p) ==
    /\ Len(p) >= HashLen
    /\ SubSeq(p, Len(p) - HashLen + 1, Len(p)) = SHA1(SubSeq(p, 1, Len(p) - HashLen))

\* the 32-bit big-endian fields of the header: the version and the count
VersionOf(p) == <<p[5], p[6], p[7], p[8]>>
CountOf(p) == ((p[9] * 256 + p[10]) * 256 + p[11]) * 256 + p[12]

\* the first n records found in body from offset o on, each as parseRecord
\* reads it: [ok, recs]
RECURSIVE ScanFrom(_, _, _, _)
ScanFrom(body, n, o, acc) ==
    IF n = 0 THEN [ok |-> TRUE, recs |-> acc]
    ELSE LET r == parseRecord(body, o) IN
         IF ~r.ok THEN [ok |-> FALSE, recs |-> acc]
         ELSE ScanFrom(body, n - 1, r.off, Append(acc, r))

Framed(p) ==
    /\ Len(p) >= HeaderLen + HashLen
    /\ TrailerMatches(p)
    /\ SubSeq(p, 1, 4) = Magic
    /\ p[9] = 0

\* the records of the packfile p, as many as its header announces
Bundle(p) ==
    IF Framed(p) THEN ScanFrom(SubSeq(p, HeaderLen + 1, Len(p) - HashLen), CountOf(p), 0, <<>>)
    ELSE [ok |-> FALSE, recs |-> <<>>]

IsDelta(r) == r.objType = OBJ_REF_DELTA
AsDelta(r) == [hash |-> EncodeToString(r.hash), data |-> r.raw]

\* the store st with the full objects among recs written to it
RECURSIVE WithFullObjects(_, _)
WithFullObjects(st, recs) ==
    IF recs = <<>> THEN st
    ELSE WithFullObjects(
             IF IsDelta(Head(recs)) THEN st
             ELSE writeObject(st, Head(recs).raw, objTypeNames[Head(recs).objType]),
             Tail(recs))

\* one pass over the deltas ds: every delta whose base is in the store and
\* that resolves has its target written
RECURSIVE Pass(_, _)
Pass(st, ds) ==
    IF ds = <<>> THEN st
    ELSE LET r == resolveDelta(st, Head(ds)) IN
         Pass(IF r.st = "ok" THEN writeObject(st, r.content, r.objType) ELSE st, Tail(ds))

\* n passes: with n the number of deltas, all that can ever be resolved are
RECURSIVE Passes(_, _, _)
Passes(st, ds, n) == IF n = 0 THEN st ELSE Passes(Pass(st, ds), ds, n - 1)

Resolvable(st, ds) == Passes(st, ds, Len(ds))

DeltasIn(recs) == [j \in 1..Len(SelectSeq(recs, IsDelta)) |-> AsDelta(SelectSeq(recs, IsDelta)[j])]

\* every ref-delta of p has its base among the full objects of p or the
\* targets of the other deltas of p, without a cycle, and resolves on it
SelfContained(p) ==
    /\ Bundle(p).ok
    /\ LET ds == DeltasIn(Bundle(p).recs)
           st == Resolvable(WithFullObjects(EmptyStore, Bundle(p).recs), ds)
       IN  \A j \in 1..Len(ds) : resolveDelta(st, ds[j]).st = "ok"

\* the target of the delta d is in the store st
TargetStored(st, d) ==
    LET r == resolveDelta(st, d) IN
    r.st = "ok" /\ ObjPath(ObjHash(r.content, r.objType)) \in DOMAIN st

\* main ended before the decoder ran, or a write to the file system failed
EnvFailed ==
    err \in {"usage", "changeDir", "getMainHash", "getPackfile", "failed to init repo",
             "failed to write object", "failed to write to file"}

\* the diagnostics of processRefDeltaObjs
ResolverErrors ==
    {"failed to parse delta source size", "failed to parse delta target size",
     "failed to read obj", "delta source size doesn't match", "bad instruction",
     "delta target size doesn't match", "failed to write to file", "index out of range"}

\* main has ended in or after processRefDeltaObjs
ResolverEnded == pc = "exit" /\ (exitCode = 0 \/ err \in ResolverErrors)

(***************************************************************************)
(* C1: for a bundle in which every ref-delta's base is a full object of    *)
(* the bundle or the target of another of its deltas (no cycle),           *)
(* parsePackfile and then processRefDeltaObjs succeed and leave every      *)
(* delta's target in the store, in whatever order the records are listed.  *)
(* The code makes one pass and fails on a delta listed before the delta    *)
(* that produces its base.                                                 *)
(***************************************************************************)
C1_AnyOrderResolves ==
    (pc = "exit" /\ ~EnvFailed /\ SelfContained(pack))
        => /\ exitCode = 0
           /\ \A j \in 1..Len(deltas) : TargetStored(store, deltas[j])

(***************************************************************************)
(* C2: a packfile whose last 20 bytes are not the SHA-1 of the bytes       *)
(* before them makes parsePackfile return an error and leaves the store    *)
(* as it was.                                                              *)
(***************************************************************************)
C2_ChecksumMismatchWritesNothing ==
    [][(pc = "parsePackfile" /\ ~TrailerMatches(pack))
          => (pc' = "exit" /\ exitCode' = 1 /\ store' = store)]_vars

\* the decoder has refused a packfile that holds a record, for its trailer
C2_Witness ==
    /\ pc = "exit"
    /\ err = "Checksum verification failed"
    /\ Len(pack) > HeaderLen + HashLen
    /\ ~TrailerMatches(pack)

(***************************************************************************)
(* C3: processRefDeltaObjs ends on every list of deltas, and when the base *)
(* of one of them can never come to be in the store it ends by returning   *)
(* an error.  It does end; but a delta with a cut instruction, listed      *)
(* before the one without a base, ends it with a panic (see C15).          *)
(***************************************************************************)
C3_MissingBaseIsAnError ==
    (/\ ResolverEnded
     /\ \E j \in 1..Len(deltas) :
            ObjPath(deltas[j].hash) \notin DOMAIN Resolvable(store, deltas))
        => exitCode = 1

(***************************************************************************)
(* C4: from an empty store, when parsePackfile and processRefDeltaObjs     *)
(* both succeed on a bundle that announces N objects, the store holds      *)
(* exactly N object ids.  Two records that carry the same object, or a     *)
(* delta whose target is an object of the bundle, share one id: the store  *)
(* holds one id for each distinct object of the N records.                 *)
(***************************************************************************)
\* the (kind, payload) objects the records recs stand for, on the store st
ObjectsOf(st, recs) ==
    {IF IsDelta(recs[j])
     THEN <<resolveDelta(st, AsDelta(recs[j])).objType,
            resolveDelta(st, AsDelta(recs[j])).content>>
     ELSE <<objTypeNames[recs[j].objType], recs[j].raw>> : j \in 1..Len(recs)}

\* the claim as it was stated
C4_ExactlyN ==
    (pc = "exit" /\ exitCode = 0) => Cardinality(DOMAIN store) = CountOf(pack)

C4_OneIdForEachObject ==
    (pc = "exit" /\ exitCode = 0)
        => LET objs == ObjectsOf(store, Bundle(pack).recs) IN
           /\ Cardinality(DOMAIN store) = Cardinality(objs)
           /\ Cardinality(objs) <= CountOf(pack)
           /\ Len(Bundle(pack).recs) = CountOf(pack)

\* three records, one of them a delta, have left two objects
C4_Witness ==
    /\ pc = "exit"
    /\ exitCode = 0
    /\ CountOf(pack) = 3
    /\ Len(deltas) = 1
    /\ Cardinality(DOMAIN store) = 2

(***************************************************************************)
(* C5: main runs its phases in the order enter the directory, discover,    *)
(* fetch, initialise, decode, resolve; when a phase fails no later phase   *)
(* starts and the process ends with exit code 1; the exit code is 0 only   *)
(* when all six succeeded.  A panic in the decoder (C14) or in the         *)
(* resolver (C15) ends the process with exit code 2.                       *)
(***************************************************************************)
PhaseOf(p) ==
    CASE p = "main" -> 0
      [] p = "changeDir" -> 1
      [] p = "getMainHash" -> 2
      [] p = "getPackfile" -> 3
      [] p = "initRepo" -> 4
      [] p \in {"parsePackfile", "records"} -> 5
      [] p = "processRefDeltaObjs" -> 6
      [] OTHER -> 7

C5_PhasesInOrder ==
    [][/\ pc' # "exit" => PhaseOf(pc') \in {PhaseOf(pc), PhaseOf(pc) + 1}
       /\ (pc # "exit" /\ pc' = "exit")
            => \/ exitCode' = 1
               \/ exitCode' = 0 /\ pc = "processRefDeltaObjs" /\ k = Len(deltas)]_vars

(***************************************************************************)
(* C6: when the target of a ref-delta is written, its base is in the store *)
(* and every full-object record of the bundle has been written; no delta   *)
(* target is written during the scan of the bundle.                        *)
(***************************************************************************)
\* the files of the full-object records of the packfile p
FullPaths(p) ==
    LET recs == Bundle(p).recs IN
    {ObjPath(ObjHash(recs[j].raw, objTypeNames[recs[j].objType]))
        : j \in {j \in 1..Len(recs) : ~IsDelta(recs[j])}}

\* the files created or changed by the step
Touched ==
    {p \in DOMAIN store' : p \notin DOMAIN store \/ store'[p] # store[p]}

C6_DeltasAfterFullObjects ==
    [][/\ (pc = "processRefDeltaObjs" /\ k' = k + 1)
            => /\ ObjPath(deltas[k + 1].hash) \in DOMAIN store
               /\ FullPaths(pack) \subseteq DOMAIN store
       /\ pc \in {"parsePackfile", "records"}
            => \A p \in Touched : p \in FullPaths(pack)]_vars

\* two delta targets have been written, after the scan
C6_Witness ==
    /\ pc = "processRefDeltaObjs"
    /\ k = 2
    /\ Cardinality(DOMAIN store) >= 3

(***************************************************************************)
(* C7: parsePackfile returns an error for every bundle whose version       *)
(* field (bytes 4..7, big-endian) is not 2, and writes no object for it.   *)
(* The code never reads the field.                                         *)
(***************************************************************************)
C7_VersionChecked ==
    [][(/\ pc = "parsePackfile"
        /\ Len(pack) >= HeaderLen + HashLen
        /\ VersionOf(pack) # <<0, 0, 0, 2>>)
          => (pc' = "exit" /\ exitCode' = 1 /\ store' = store)]_vars

(***************************************************************************)
(* C8: a record is refused for its type exactly when the type is 0, 5 or   *)
(* 6; the types 1, 2, 3, 4 and 7 are accepted, and a record of type 4 is   *)
(* written as an object of kind tag.  objTypeNames has no entry for 4.     *)
(***************************************************************************)
Tag == <<116, 97, 103>>

TypeAt(body, o) == (body[o + 1] \div 16) % 8

C8_AcceptedTypes ==
    [][(pc = "records" /\ Below(i, objsCount) /\ off < Len(Body(pack)))
          => LET t == TypeAt(Body(pack), off) IN
             /\ (pc' = "exit" /\ err' = "Bad object type") <=> t \in {0, 5, 6}
             /\ (t = OBJ_TAG /\ pc' = "records")
                    => \E p \in DOMAIN store' : parseObjectFile(store'[p]).objType = Tag]_vars

(***************************************************************************)
(* C9: a delta whose instruction stream holds the opcode byte 0 fails to   *)
(* resolve with an error, and nothing is written for it.  The code takes   *)
(* the byte for an insert of no bytes and goes on.                         *)
(***************************************************************************)
\* the number of one bits among the low 7 bits of op: the bytes a copy reads
CopyOperands(op) == Cardinality({j \in 0..6 : BitSet(op, j)})

\* an opcode of the instruction stream data[o:] is 0
RECURSIVE HasOpcodeZero(_, _)
HasOpcodeZero(data, o) ==
    IF o >= Len(data) THEN FALSE
    ELSE LET op == data[o + 1] IN
         IF op = 0 THEN TRUE
         ELSE IF op >= 128 THEN HasOpcodeZero(data, o + 1 + CopyOperands(op))
         ELSE HasOpcodeZero(data, o + 1 + op)

OpcodeZeroIn(data) ==
    LET src == parseVarInt(data)
        trg == parseVarInt(Slice(data, src.read, Len(data)))
    IN  src.ok /\ trg.ok /\ HasOpcodeZero(data, src.read + trg.read)

C9_OpcodeZeroRejected ==
    [][(pc = "processRefDeltaObjs" /\ k < Len(deltas) /\ OpcodeZeroIn(deltas[k + 1].data))
          => (pc' = "exit" /\ exitCode' = 1 /\ store' = store)]_vars

(***************************************************************************)
(* C10: after writeObject(payload, kind) has succeeded, readObject on the  *)
(* id SHA1("<kind> <len>\0" + payload) returns that payload and that kind, *)
(* whatever other objects were written since.                              *)
(***************************************************************************)
C10_ReadsBackWhatWasWritten ==
    \A payload \in Payloads, kind \in Kinds :
        ObjPath(ObjHash(payload, kind)) \in DOMAIN store
            => readObject(store, ObjHash(payload, kind))
                   = [ok |-> TRUE, content |-> payload, objType |-> kind]

\* two objects are in the store, one of them with a NUL and a space in it
C10_Witness ==
    /\ Cardinality(DOMAIN store) = 2
    /\ readObject(store, ObjHash(<<0, 32>>, Blob)).ok
    /\ readObject(store, ObjHash(<<>>, Tree)).ok

(***************************************************************************)
(* C11: the entries of the store are write-once: a call of writeObject     *)
(* leaves every file that is in the store with the bytes it had, and       *)
(* writing the same (kind, payload) once more leaves the whole store as    *)
(* the first write left it.                                                *)
(***************************************************************************)
C11_WriteOnce ==
    [][/\ \A p \in DOMAIN store : p \in DOMAIN store' /\ store'[p] = store[p]
       /\ \A payload \in Payloads, kind \in Kinds :
              store' = writeObject(store, payload, kind)
                  => writeObject(store', payload, kind) = store']_vars

\* two objects are in the store, and writing one of them again changes nothing
C11_Witness ==
    /\ Cardinality(DOMAIN store) = 2
    /\ ObjPath(ObjHash(<<0>>, Blob)) \in DOMAIN store
    /\ writeObject(store, <<0>>, Blob) = store

(***************************************************************************)
(* C12: processRefDeltaObjs writes the target of a ref-delta of declared   *)
(* sizes (s, t) only if the base read from the store is s bytes long and   *)
(* the target built is t bytes long; if one of the two lengths differs it  *)
(* returns an error and writes nothing for the delta.                      *)
(***************************************************************************)
C12_DeclaredSizesHold ==
    [][(pc = "processRefDeltaObjs" /\ k < Len(deltas))
          => LET d == deltas[k + 1]
                 src == parseVarInt(d.data)
                 trg == parseVarInt(Slice(d.data, src.read, Len(d.data)))
                 base == readObject(store, d.hash)
                 parsed == parseInstructions(
                               Slice(d.data, src.read + trg.read, Len(d.data)),
                               ReadAllCap - (src.read + trg.read), 0, <<>>)
                 built == applyInstructions(parsed.insts, base.content, <<>>)
                 refused == pc' = "exit" /\ exitCode' = 1 /\ store' = store
             IN  (src.ok /\ trg.ok)
                    => /\ (k' = k + 1 \/ store' # store)
                            => /\ base.ok
                               /\ BitsOf(Len(base.content)) = src.value
                               /\ \E p \in DOMAIN store' :
                                      /\ store' = WriteFile(store, p, store'[p])
                                      /\ parseObjectFile(store'[p]).ok
                                      /\ BitsOf(Len(parseObjectFile(store'[p]).content))
                                             = trg.value
                       /\ (base.ok /\ BitsOf(Len(base.content)) # src.value) => refused
                       /\ (/\ base.ok
                           /\ ~parsed.panic
                           /\ built.ok
                           /\ BitsOf(Len(built.content)) # trg.value) => refused]_vars

\* a delta with a wrong source size or a wrong target size has been refused,
\* after the target of another delta was written
C12_Witness ==
    /\ pc = "exit"
    /\ k = 1
    /\ err \in {"delta source size doesn't match", "delta target size doesn't match"}
    /\ ObjPath(ObjHash(AB, Blob)) \in DOMAIN store

(***************************************************************************)
(* C15: for a delta whose instruction stream ends within an instruction (a *)
(* copy whose offset or size bytes are missing, an insert of n bytes of    *)
(* which fewer than n are there), processRefDeltaObjs returns an error and *)
(* writes no object.  The code reads the missing bytes of a copy without a *)
(* test (a panic), and takes the missing bytes of an insert from the       *)
(* buffer behind the payload.                                              *)
(***************************************************************************)
\* the instruction stream data[o:] ends within an instruction
RECURSIVE EndsWithinInstruction(_, _)
EndsWithinInstruction(data, o) ==
    IF o >= Len(data) THEN FALSE
    ELSE LET op == data[o + 1]
             operands == IF op >= 128 THEN CopyOperands(op) ELSE op
         IN  IF o + 1 + operands > Len(data) THEN TRUE
             ELSE EndsWithinInstruction(data, o + 1 + operands)

CutStream(data) ==
    LET src == parseVarInt(data)
        trg == parseVarInt(Slice(data, src.read, Len(data)))
    IN  src.ok /\ trg.ok /\ EndsWithinInstruction(data, src.read + trg.read)

C15_CutStreamRefused ==
    [][(pc = "processRefDeltaObjs" /\ k < Len(deltas) /\ CutStream(deltas[k + 1].data))
          => (pc' = "exit" /\ exitCode' = 1 /\ store' = store)]_vars

(***************************************************************************)
(* C14: on every buffer parsePackfile ends by returning its deltas or an   *)
(* error, and never indexes or slices the buffer out of range.  A buffer   *)
(* of 24 to 31 bytes with the magic and a matching trailer passes the      *)
(* tests of lines 549-557, and pack[12 : len(pack)-20] of line 559 panics. *)
(***************************************************************************)
C14_DecoderReturns ==
    [][(pc \in {"parsePackfile", "records"} /\ pc' = "exit") => exitCode' = 1]_vars

(***************************************************************************)
(* C16: the size parsePackfile decodes from a size header it does not      *)
(* refuse is the exact value (low 4 bits of the first byte) + the sum over *)
(* the tail bytes k of (low 7 bits << (4 + 7k)), is not negative and fits  *)
(* a signed 64-bit integer.  The code refuses shift > 60 and so takes a    *)
(* tail byte at shift 60, whose bits reach the positions 60 to 66.         *)
(***************************************************************************)
\* the exact value of the header hdr, as the set of its one bits
RECURSIVE ExactTail(_, _, _)
ExactTail(hdr, j, shift) ==
    IF j > Len(hdr) THEN {}
    ELSE {shift + b : b \in {b \in 0..6 : BitSet(hdr[j], b)}}
             \cup (IF hdr[j] >= 128 THEN ExactTail(hdr, j + 1, shift + 7) ELSE {})

ExactSize(hdr) ==
    {b \in 0..3 : BitSet(hdr[1], b)}
        \cup (IF hdr[1] >= 128 THEN ExactTail(hdr, 2, 4) ELSE {})

C16_SizeIsExact ==
    pc = "sized" => (objSize = ExactSize(pack) /\ \A b \in ExactSize(pack) : b < 63)

(***************************************************************************)
(* C17: the size decoder that adds the tail bytes (+=) and the one that    *)
(* ors them (|=) return the same size, consume the same number of bytes    *)
(* and refuse the same headers.                                            *)
(***************************************************************************)
C17_SameSizeDecoder ==
    [][pc = "size"
          => LET a == SizeHeaderAdd(pack, off)
                 o == SizeHeader(pack, off)
             IN  /\ a.ok = o.ok
                 /\ a.ok => (a.size = o.size /\ a.off = o.off)
                 /\ pc' \in {"sized", "sizedAdd"}
                        => (a.ok /\ objSize' = a.size /\ objSize' = o.size
                              /\ off' = a.off /\ off' = o.off)
                 /\ pc' = "exit" => (~a.ok /\ ~o.ok)]_vars

\* the earlier revision has decoded a header of ten bytes whose bits reach
\* from position 0 to position 63
C17_Witness ==
    /\ pc = "sizedAdd"
    /\ Len(pack) = 10
    /\ off = 10
    /\ {0, 4, 63} \subseteq objSize

(***************************************************************************)
(* C13: for an advertisement with the capability token                     *)
(* HEAD:refs/heads/<branch> and a line whose reference name is exactly     *)
(* refs/heads/<branch>, getMainHash returns <branch> in full, also when it *)
(* holds a '/', and the object id of that very line, never that of a line  *)
(* whose name only ends with the same text.  The code keeps the text       *)
(* between the second and the third '/' of the token for the branch, and   *)
(* takes the first line that ends with refs/heads/ and that text.          *)
(***************************************************************************)
SymrefToken == <<"s", "y", "m", "r", "e", "f", "=">> \o HeadRefsHeads \o <<"/">>

\* the words of the document, a word ending at a space or at the end of a line
WordsOf(body) ==
    UNION {{Split(line, " ")[n] : n \in 1..Len(Split(line, " "))}
              : line \in {Split(body, "\n")[n] : n \in 1..Len(Split(body, "\n"))}}

\* the branches HEAD is said to point to
SymrefBranches(body) ==
    {SubSeq(w, Len(SymrefToken) + 1, Len(w)) : w \in {w \in WordsOf(body) : HasPrefix(w, SymrefToken)}}

\* the object ids of the lines "<length><id> <name>" of the document
OidsOfRef(body, name) ==
    LET lines == Split(body, "\n") IN
    {SubSeq(lines[n], 5, Len(lines[n]) - Len(name) - 1)
        : n \in {n \in 1..Len(lines) :
                    /\ Len(lines[n]) > Len(name) + 5
                    /\ HasSuffix(lines[n], <<" ">> \o name)
                    /\ " " \notin {lines[n][j] : j \in 1..(Len(lines[n]) - Len(name) - 1)}}}

C13_ExactBranchAndHash ==
    \A b \in SymrefBranches(advert) :
        (pc # "getMainHash" /\ OidsOfRef(advert, RefsHeads \o b) # {})
            => /\ pc = "getPackfile"
               /\ defaultBranch = b
               /\ mainHash \in OidsOfRef(advert, RefsHeads \o b)

====
